---- MODULE Spec2Model ----
(***************************************************************************)
(* Model of mpldts.geometry.station.Station: construction of a CMS Drift   *)
(* Tube chamber (field validation, pose queries, the three registered      *)
(* transforms, super-layer construction), super_layer lookup and the       *)
(* ingestion of per-cell attributes by set_cell_attrs.                     *)
(*                                                                         *)
(* Optional Python values are written <<>> (None / not set) and <<v>>.     *)
(* Vectors are exact rationals: [v |-> <<x, y, z>>, d |-> denominator].    *)
(***************************************************************************)
EXTENDS Integers, Sequences, FiniteSets

VARIABLES
    args,           \* arguments of Station(wheel, sector, station, dt_info)
    pc,             \* position of the constructor / of the current call
    err,            \* exception that reached the caller ("" when none)
    _wheel,         \* Station._wheel
    _sector,        \* Station._sector
    _number,        \* Station._number
    id,             \* Station.id
    local_center,   \* Station.local_center
    global_center,  \* Station.global_center
    _direction,     \* Station.direction
    bounds,         \* Station.bounds
    geoLog,         \* the queries made to DTGEOMETRY, in order
    enumerated,     \* the SuperLayer elements DTGEOMETRY enumerated
    transformer,    \* the transforms registered in Station.transformer
    _super_layers,  \* Station._super_layers
    cells,          \* attributes (__dict__) of every drift cell of the tree
    dt_info,        \* the caller's object passed to set_cell_attrs
    info,           \* the local list `info` of set_cell_attrs
    pos,            \* position of the for loop over `info`
    cells_before,   \* attributes of the cells when set_cell_attrs was entered
    warned,         \* warnings emitted by the current set_cell_attrs call
    found           \* argument and result of the last super_layer call

vars == <<args, pc, err, _wheel, _sector, _number, id, local_center,
          global_center, _direction, bounds, geoLog, enumerated, transformer,
          _super_layers, cells, dt_info, info, pos, cells_before, warned,
          found>>

----------------------------------------------------------------------------
(* Bounds of the model *)

Margin == 1       \* how far outside the valid ranges constructor arguments go
Grid == 5         \* direction components are multiples of 1/Grid
MaxSL == 2        \* super layers enumerated by the geometry, and their numbers
MaxBatch == 2     \* records in one set_cell_attrs input
NumLayers == 1    \* layers of a super layer
NumWires == 2     \* cells of a layer

----------------------------------------------------------------------------
(* Python values *)

None == <<>>
Some(v) == <<v>>

\* bool(x) for None and integers
Truthy(x) == x # None /\ x[1] # 0

----------------------------------------------------------------------------
(* Vectors (numpy arrays of three components) *)

Vec(x, y, z) == [v |-> <<x, y, z>>, d |-> 1]

Times(a, f) == [v |-> <<a.v[1] * f, a.v[2] * f, a.v[3] * f>>, d |-> a.d]

Dot(a, b) == a.v[1] * b.v[1] + a.v[2] * b.v[2] + a.v[3] * b.v[3]

\* pytransform3d.rotations.perpendicular_to_vectors(a, b) is numpy.cross(a, b)
perpendicular_to_vectors(a, b) ==
    [v |-> << a.v[2] * b.v[3] - a.v[3] * b.v[2],
              a.v[3] * b.v[1] - a.v[1] * b.v[3],
              a.v[1] * b.v[2] - a.v[2] * b.v[1] >>,
     d |-> a.d * b.d]

\* array([ex, ey, ez]).T : the matrix whose columns are ex, ey, ez
Columns(ex, ey, ez) == [ex |-> ex, ey |-> ey, ez |-> ez]

IsUnit(a) == Dot(a, a) = a.d * a.d
Perpendicular(a, b) == Dot(a, b) = 0
SameVector(a, b) ==
    \A i \in 1..3 : a.v[i] * b.d = b.v[i] * a.d

----------------------------------------------------------------------------
(* Station field validators *)

WheelMin == -2
WheelMax == 2
SectorMin == 1
SectorMax == 14
NumberMin == 1
NumberMax == 4

WheelOK(value) == ~(value < WheelMin \/ value > WheelMax)
SectorOK(value) == ~(value < SectorMin \/ value > SectorMax)
\* a validator off by one at its lower end
NumberOK_AcceptsZero(value) == ~(value < 0 \/ value > NumberMax)
NumberOK(value) == ~(value < NumberMin \/ value > NumberMax)

NegativeFaceSectors == {1, 4, 5, 8, 9, 12, 13}

\* the sign without the sector rule of the central wheel
face_orientation_IgnoresSector(wheel, sector) == IF wheel < 0 THEN -1 ELSE 1

face_orientation(wheel, sector) ==
    IF wheel < 0 THEN -1
    ELSE IF wheel > 0 THEN 1
    ELSE IF sector \in NegativeFaceSectors THEN -1 ELSE 1

----------------------------------------------------------------------------
(* The geometry source DTGEOMETRY (an external lookup table) *)

\* DTGEOMETRY.get("rawId", wh=, sec=, st=): one identifier per chamber
RawId(wheel, sector, station) == <<wheel, sector, station>>

\* DTGEOMETRY.get(<attribute>, rawId=): the stored attribute of that chamber
GeoGet(what, rawId) == <<what, rawId>>

\* Unit normal vectors the geometry can hold: those of the grid of multiples of
\* 1/Grid that have no negative y or z component
Directions ==
    { [v |-> <<a, b, c>>, d |-> Grid] :
        <<a, b, c>> \in { t \in (-Grid..Grid) \X (0..Grid) \X (0..Grid) :
                            t[1] * t[1] + t[2] * t[2] + t[3] * t[3] = Grid * Grid } }

\* DTGEOMETRY.get(rawId=).iter("SuperLayer"): the elements of an enumeration
\* whose i-th super layer bears the number e[i]
SLElements(e) == [i \in 1..Len(e) |-> [rawId |-> i, number |-> e[i]]]

RECURSIVE SeqsUpTo(_, _)
SeqsUpTo(S, n) ==
    IF n = 0 THEN {<<>>}
    ELSE LET shorter == SeqsUpTo(S, n - 1)
         IN  shorter \cup { Append(s, x) : s \in { t \in shorter : Len(t) = n - 1 }, x \in S }

Enumerations == SeqsUpTo(1..MaxSL, MaxSL)

Layers == 1..NumLayers
Wires == 1..NumWires

----------------------------------------------------------------------------
(* Cell attribute records *)

IdKeys == {"sl", "l", "w"}
AttrKeys == {"time", "size"}
AllKeys == IdKeys \cup AttrKeys

\* a dict: key -> <<value>>, or <<>> for a key the dict does not hold
Rec(sl, l, w, time, size) ==
    [k \in AllKeys |->
        CASE k = "sl" -> sl [] k = "l" -> l [] k = "w" -> w
          [] k = "time" -> time [] k = "size" -> size]

NoAttrs == [k \in AllKeys |-> None]

\* a read that leaves the key in the dict (dict.get for dict.pop)
PopRest_KeepsKey(item, key) == item

\* dict.pop(key, None): the value and the dict without the key
PopValue(item, key) == item[key]
PopRest(item, key) == [item EXCEPT ![key] = None]

HasKeys(item) == { k \in AllKeys : item[k] # None }

----------------------------------------------------------------------------
(* Station._setup_tranformer *)

\* TransformManager.add(source, target, rotation_matrix, translation_vector):
\* one more registered transform; the translation defaults to zero
TmAdd(tm, source, target, rotation, translation) ==
    Append(tm, [source |-> source, target |-> target,
                rotation |-> rotation, translation |-> translation])

ZeroTranslation == <<"zero">>

_setup_tranformer(wheel, sector, direction, translation) ==
    LET f == face_orientation(wheel, sector)
        CMSezSt == direction
        CMSeySt == Times(Vec(0, 0, 1), f)
        CMSexSt == perpendicular_to_vectors(CMSeySt, CMSezSt)
        _RCMSSt == Columns(CMSexSt, CMSeySt, CMSezSt)
        StNvezSt == Vec(0, 0, -1)
        StNvPhieySt == Times(Vec(0, -1, 0), f)
        StNvPhiexSt == perpendicular_to_vectors(StNvPhieySt, StNvezSt)
        _RStNvPhiSt == Columns(StNvPhiexSt, StNvPhieySt, StNvezSt)
        StNvEtaexSt == Times(Vec(-1, 0, 0), f)
        StNvEtaeySt == perpendicular_to_vectors(StNvezSt, StNvEtaexSt)
        _RStNvEtaSt == Columns(StNvEtaexSt, StNvEtaeySt, StNvezSt)
        tm1 == TmAdd(<<>>, "Station", "CMS", _RCMSSt, translation)
        tm2 == TmAdd(tm1, "Station", "StationNvPhi", _RStNvPhiSt, ZeroTranslation)
    IN  TmAdd(tm2, "Station", "StationNvEta", _RStNvEtaSt, ZeroTranslation)

----------------------------------------------------------------------------
(* The tree: super layers, layers and cells *)

\* SuperLayer(rawId=, parent=): the node of that geometry element
SuperLayer(element, parent) ==
    [rawId |-> element.rawId, number |-> element.number, parent |-> parent]

\* the cells SuperLayer(rawId=..) builds below itself, none with an attribute yet
CellsOf(sls) ==
    [c \in { sls[i].rawId : i \in 1..Len(sls) } \X Layers \X Wires |-> NoAttrs]

\* an insertion at the front of the list
_add_super_layer_AtFront(sls, super_layer) == <<super_layer>> \o sls

_add_super_layer(sls, super_layer) == Append(sls, super_layer)

\* the for loop of Station._build_station over the enumerated elements
RECURSIVE BuildFrom(_, _, _, _)
BuildFrom(sls, elements, i, parent) ==
    IF i > Len(elements) THEN sls
    ELSE BuildFrom(_add_super_layer(sls, SuperLayer(elements[i], parent)),
                   elements, i + 1, parent)

_build_station(elements, parent) == BuildFrom(<<>>, elements, 1, parent)

\* a lookup that keeps the last match
super_layer_LastMatch(sls, super_layer_number) ==
    LET matches == { i \in 1..Len(sls) : sls[i].number = super_layer_number }
    IN  IF matches = {} THEN None
        ELSE Some(sls[CHOOSE i \in matches : \A j \in matches : j <= i])

\* next((sl for sl in self._super_layers if sl.number == n), None)
RECURSIVE NextFrom(_, _, _)
NextFrom(sls, n, i) ==
    IF i > Len(sls) THEN None
    ELSE IF sls[i].number = n THEN Some(sls[i])
    ELSE NextFrom(sls, n, i + 1)

super_layer(sls, super_layer_number) == NextFrom(sls, super_layer_number, 1)

\* SuperLayer.layer(l): the layer numbered l, or None
layer(sl, l) == IF l \in Layers THEN Some(<<sl.rawId, l>>) ELSE None

\* Layer.cell(w): the cell of wire w, or None
cell(lay, w) == IF w \in Wires THEN Some(<<lay[1], lay[2], w>>) ELSE None

----------------------------------------------------------------------------
(* Station.set_cell_attrs *)

\* no copy: the loop works on the caller's own records
deepcopy_Alias(recs) == [recs |-> recs, shared |-> TRUE]

\* copy.deepcopy(x): an equal object that shares nothing with x
deepcopy(recs) == [recs |-> recs, shared |-> FALSE]

\* DataFrame.to_dict(orient="records"): new dicts, one per row
to_dict_records(recs) == [recs |-> recs, shared |-> FALSE]

Shapes == {"dict", "DataFrame", "list"}

\* the isinstance chain: the list `info` the loop runs over
Normalise(input) ==
    CASE input.shape = "dict" -> deepcopy(input.recs)
      [] input.shape = "DataFrame" -> to_dict_records(input.recs)
      [] input.shape = "list" -> deepcopy(input.recs)

\* for key, value in info_item.items(): setattr(cell, key, value)
SetAttrs(attrs, item) ==
    [k \in AllKeys |-> IF item[k] # None THEN item[k] ELSE attrs[k]]

IdentifiersMsg == "ValueError: The drift cell information must contain the super layer, layer, and wire identifiers."
NoneTypeMsg == "AttributeError: 'NoneType' object"

\* how one pass of the loop body ends ("next", "continue" or the exception
\* raised), the cells, the item after the pops, and the warning emitted
Outcome(how, newcells, item, warning) ==
    [how |-> how, cells |-> newcells, item |-> item, warning |-> warning]

\* the warning without the continue: the lookup goes on with None
Skip_NoContinue(sl, item, cs) ==
    [how |-> "AttributeError: 'NoneType' object", cells |-> cs, item |-> item, warning |-> sl]

\* if super_layer is None: warnings.warn(...); continue
Skip(sl, item, cs) == Outcome("continue", cs, item, sl)

\* cell = self.super_layer(sl).layer(l).cell(w), then the setattr loop
Assign(found_sl, l, w, item, cs) ==
    LET lay == layer(found_sl, l[1])
    IN  IF lay = None
        THEN Outcome(NoneTypeMsg, cs, item, None)
        ELSE LET c == cell(lay[1], w[1])
             IN  IF c = None
                 THEN IF HasKeys(item) = {}
                      THEN Outcome("next", cs, item, None)
                      ELSE Outcome(NoneTypeMsg, cs, item, None)
                 ELSE Outcome("next", [cs EXCEPT ![c[1]] = SetAttrs(@, item)], item, None)

\* one pass of the loop body over info_item, on the super layers sls and the
\* cell attributes cs
ProcessItem(info_item, sls, cs) ==
    LET sl == PopValue(info_item, "sl")
        item1 == PopRest(info_item, "sl")
        l == PopValue(item1, "l")
        item2 == PopRest(item1, "l")
        w == PopValue(item2, "w")
        item3 == PopRest(item2, "w")
    IN  IF ~(Truthy(sl) /\ Truthy(l) /\ Truthy(w))
        THEN Outcome(IdentifiersMsg, cs, item3, None)
        ELSE LET found_sl == super_layer(sls, sl[1])
             IN  IF found_sl = None
                 THEN Skip(sl, item3, cs)
                 ELSE Assign(super_layer(sls, sl[1])[1], l, w, item3, cs)

----------------------------------------------------------------------------
(* Inputs *)

\* the records callers pass: complete ones, ones lacking an identifier, ones
\* naming a layer or a wire the tree does not have, and a wire numbered 0
Records ==
    { Rec(Some(1), Some(1), Some(1), Some(10), Some(2)),
      Rec(Some(1), Some(1), Some(1), Some(20), None),
      Rec(Some(MaxSL), Some(NumLayers), Some(NumWires), Some(10), None),
      Rec(None, Some(1), Some(1), Some(10), None),
      Rec(Some(1), None, Some(1), Some(10), None),
      Rec(Some(1), Some(1), None, Some(10), None),
      Rec(Some(1), Some(NumLayers + 1), Some(1), Some(10), None),
      Rec(Some(1), Some(1), Some(NumWires + 1), Some(10), None),
      Rec(Some(1), Some(1), Some(NumWires + 1), None, None),
      Rec(Some(1), Some(1), Some(0), Some(10), None) }

Batches == SeqsUpTo(Records, MaxBatch)

\* the rows of a table all hold the table's columns
SameColumns(recs) ==
    \A i, j \in 1..Len(recs) : HasKeys(recs[i]) = HasKeys(recs[j])

Inputs ==
    { [shape |-> "list", recs |-> b] : b \in Batches }
    \cup { [shape |-> "dict", recs |-> <<r>>] : r \in Records }
    \cup { [shape |-> "DataFrame", recs |-> b] : b \in { x \in Batches : SameColumns(x) } }
    \cup { [shape |-> "tuple", recs |-> <<>>] }

\* a list of complete records, as in the module's own smoke check
SmokeInput ==
    [shape |-> "list",
     recs |-> << Rec(Some(1), Some(1), Some(1), Some(10), Some(2)),
                 Rec(Some(1), Some(1), Some(NumWires), Some(10), Some(2)) >>]

ArgsOver(W, S, N, I) == [wheel : W, sector : S, station : N, dt_info : I]

----------------------------------------------------------------------------
(* State after `Station(wheel, sector, station, dt_info)` is entered *)

InitWith(A) ==
    /\ args \in A
    /\ pc = "wheel"
    /\ err = ""
    /\ _wheel = None /\ _sector = None /\ _number = None
    /\ id = None /\ local_center = None /\ global_center = None
    /\ _direction = None /\ bounds = None
    /\ geoLog = <<>>
    /\ enumerated = <<>>
    /\ transformer = <<>>
    /\ _super_layers = <<>>
    /\ cells = CellsOf(<<>>)
    /\ dt_info = None /\ info = None /\ pos = 0
    /\ cells_before = CellsOf(<<>>)
    /\ warned = <<>>
    /\ found = None

fields == <<_wheel, _sector, _number>>
pose == <<id, local_center, global_center, _direction, bounds>>
tree == <<enumerated, _super_layers, cells>>
call == <<dt_info, info, pos, cells_before, warned>>

----------------------------------------------------------------------------
(* Station.__init__ *)

WheelMsg == "ValueError: Wheel value must be between -2 and 2"
SectorMsg == "ValueError: Sector value must be between 1 and 14"
NumberMsg == "ValueError: Station value must be between 1 and 4"
TypeMsg == "TypeError: The drift time information must be a dictionary, a list of dictionaries, or a pandas DataFrame."

\* self.wheel = wheel
SetWheel ==
    /\ pc = "wheel"
    /\ IF WheelOK(args.wheel)
       THEN _wheel' = Some(args.wheel) /\ pc' = "sector" /\ err' = err
       ELSE _wheel' = _wheel /\ pc' = "raised" /\ err' = WheelMsg
    /\ UNCHANGED <<args, _sector, _number, pose, geoLog, transformer, tree, call, found>>

\* self.sector = sector
SetSector ==
    /\ pc = "sector"
    /\ IF SectorOK(args.sector)
       THEN _sector' = Some(args.sector) /\ pc' = "number" /\ err' = err
       ELSE _sector' = _sector /\ pc' = "raised" /\ err' = SectorMsg
    /\ UNCHANGED <<args, _wheel, _number, pose, geoLog, transformer, tree, call, found>>

\* self.number = station
SetNumber ==
    /\ pc = "number"
    /\ IF NumberOK(args.station)
       THEN _number' = Some(args.station) /\ pc' = "geometry" /\ err' = err
       ELSE _number' = _number /\ pc' = "raised" /\ err' = NumberMsg
    /\ UNCHANGED <<args, _wheel, _sector, pose, geoLog, transformer, tree, call, found>>

\* self.id = ..., self.local_center = ..., self.global_center = ...,
\* self.direction = ..., self.bounds = ...; the geometry holds the normal d
QueryGeometry(d) ==
    /\ pc = "geometry"
    /\ LET rawId == RawId(args.wheel, args.sector, args.station)
       IN  /\ id' = Some(rawId)
           /\ local_center' = Some(GeoGet("LocalPosition", rawId))
           /\ global_center' = Some(GeoGet("GlobalPosition", rawId))
           /\ _direction' = Some(d)
           /\ bounds' = Some(GeoGet("Bounds", rawId))
    /\ geoLog' = geoLog \o <<"rawId", "LocalPosition", "GlobalPosition", "NormalVector", "Bounds">>
    /\ pc' = "transformer"
    /\ UNCHANGED <<args, err, fields, transformer, tree, call, found>>

\* self._setup_tranformer()
SetupTransformer ==
    /\ pc = "transformer"
    /\ transformer' = _setup_tranformer(_wheel[1], _sector[1], _direction[1], global_center[1])
    /\ pc' = "build"
    /\ UNCHANGED <<args, err, fields, pose, geoLog, tree, call, found>>

\* self._super_layers = []; self._build_station(); the geometry enumerates
\* super layers numbered e[1], e[2], ...
BuildStation(e) ==
    /\ pc = "build"
    /\ geoLog' = Append(geoLog, "SuperLayer")
    /\ enumerated' = SLElements(e)
    /\ _super_layers' = _build_station(SLElements(e), id)
    /\ cells' = CellsOf(_super_layers')
    /\ pc' = "attrs"
    /\ UNCHANGED <<args, err, fields, pose, transformer, call, found>>

\* entry of set_cell_attrs(input): the isinstance chain
Enter(input, loopPc, failPc) ==
    /\ dt_info' = Some(input)
    /\ cells_before' = cells
    /\ warned' = <<>>
    /\ IF input.shape \in Shapes
       THEN info' = Some(Normalise(input)) /\ pos' = 1 /\ pc' = loopPc /\ err' = ""
       ELSE info' = None /\ pos' = 0 /\ pc' = failPc /\ err' = TypeMsg

\* if dt_info is not None: self.set_cell_attrs(dt_info)
CtorAttrs ==
    /\ pc = "attrs"
    /\ IF args.dt_info = None
       THEN pc' = "returned" /\ UNCHANGED <<err, call>>
       ELSE Enter(args.dt_info[1], "ctor_loop", "raised")
    /\ UNCHANGED <<args, fields, pose, geoLog, transformer, tree, found>>

----------------------------------------------------------------------------
(* Station.set_cell_attrs and Station.super_layer on a built station *)

InLoop == pc \in {"ctor_loop", "loop"}

\* one iteration of `for info_item in info`
ProcessRecord ==
    /\ InLoop
    /\ pos <= Len(info[1].recs)
    /\ LET r == ProcessItem(info[1].recs[pos], _super_layers, cells)
           raised == r.how \notin {"next", "continue"}
       IN  /\ cells' = r.cells
           /\ dt_info' = IF info[1].shared
                         THEN Some([dt_info[1] EXCEPT !.recs[pos] = r.item])
                         ELSE dt_info
           /\ warned' = IF r.warning = None THEN warned ELSE Append(warned, r.warning[1])
           /\ IF raised
              THEN /\ err' = r.how
                   /\ pc' = IF pc = "loop" THEN "returned" ELSE "raised"
                   /\ info' = None
                   /\ pos' = 0
              ELSE /\ err' = err
                   /\ pc' = pc
                   /\ info' = Some([info[1] EXCEPT !.recs[pos] = r.item])
                   /\ pos' = pos + 1
    /\ UNCHANGED <<args, fields, pose, geoLog, transformer, enumerated, _super_layers,
                   cells_before, found>>

\* the loop is exhausted: set_cell_attrs returns
Return ==
    /\ InLoop
    /\ pos > Len(info[1].recs)
    /\ pc' = "returned"
    /\ info' = None
    /\ pos' = 0
    /\ UNCHANGED <<args, err, fields, pose, geoLog, transformer, tree, dt_info,
                   cells_before, warned, found>>

\* station.set_cell_attrs(input)
CallSetCellAttrs(input) ==
    /\ pc = "ready"
    /\ Enter(input, "loop", "returned")
    /\ UNCHANGED <<args, fields, pose, geoLog, transformer, tree, found>>

\* station.super_layer(n)
CallSuperLayer(n) ==
    /\ pc = "ready"
    /\ found' = Some([n |-> n, result |-> super_layer(_super_layers, n)])
    /\ pc' = "returned"
    /\ UNCHANGED <<args, err, fields, pose, geoLog, transformer, tree, call>>

\* the caller has seen what the call returned or raised, and goes on
Continue ==
    /\ pc = "returned"
    /\ pc' = "ready"
    /\ err' = ""
    /\ dt_info' = None
    /\ warned' = <<>>
    /\ cells_before' = cells
    /\ found' = None
    /\ UNCHANGED <<args, fields, pose, geoLog, transformer, tree, info, pos>>

----------------------------------------------------------------------------
(* Specifications *)

Outside(lo, hi) == (lo - Margin)..(hi + Margin)

\* Construction over every argument in and around the valid ranges and every
\* direction of the grid
Init ==
    InitWith(ArgsOver(Outside(WheelMin, WheelMax), Outside(SectorMin, SectorMax),
                      Outside(NumberMin, NumberMax), {None, Some(SmokeInput)}))

Next ==
    \/ SetWheel
    \/ SetSector
    \/ SetNumber
    \/ \E d \in Directions : QueryGeometry(d)
    \/ SetupTransformer
    \/ \E e \in {<<1, 2>>} : BuildStation(e)
    \/ CtorAttrs
    \/ ProcessRecord
    \/ Return
    \/ Continue
    \/ CallSetCellAttrs(SmokeInput)
    \/ CallSuperLayer(1)

Spec == Init /\ [][Next]_vars

\* The tree over every enumeration of super layers, and every lookup
AFewArgs == ArgsOver({WheelMin, 0}, {SectorMin}, {NumberMax}, {None, Some(SmokeInput)})
ADirection == [v |-> <<Grid, 0, 0>>, d |-> Grid]

InitTree == InitWith(AFewArgs)

NextTree ==
    \/ SetWheel
    \/ SetSector
    \/ SetNumber
    \/ QueryGeometry(ADirection)
    \/ SetupTransformer
    \/ \E e \in Enumerations : BuildStation(e)
    \/ CtorAttrs
    \/ ProcessRecord
    \/ Return
    \/ Continue
    \/ CallSetCellAttrs(SmokeInput)
    \/ \E n \in 0..(MaxSL + 1) : CallSuperLayer(n)

SpecTree == InitTree /\ [][NextTree]_vars

\* Attribute ingestion over every input
CellEnums == {<<1, MaxSL>>, <<MaxSL, 1>>, <<1>>, <<MaxSL>>}

\* a single record lacking its wire
LackingInput ==
    [shape |-> "dict", recs |-> << Rec(Some(1), Some(1), None, Some(10), None) >>]

InitCells ==
    InitWith(ArgsOver({WheelMin}, {SectorMin}, {NumberMax},
                      {None, Some(SmokeInput), Some(LackingInput)}))

NextCells ==
    \/ SetWheel
    \/ SetSector
    \/ SetNumber
    \/ QueryGeometry(ADirection)
    \/ SetupTransformer
    \/ \E e \in CellEnums : BuildStation(e)
    \/ CtorAttrs
    \/ ProcessRecord
    \/ Return
    \/ Continue
    \/ \E input \in Inputs : CallSetCellAttrs(input)
    \/ CallSuperLayer(1)

SpecCells == InitCells /\ [][NextCells]_vars

----------------------------------------------------------------------------
(* Properties *)

Orthonormal(R) ==
    /\ IsUnit(R.ex) /\ IsUnit(R.ey) /\ IsUnit(R.ez)
    /\ Perpendicular(R.ex, R.ey)
    /\ Perpendicular(R.ey, R.ez)
    /\ Perpendicular(R.ex, R.ez)

\* the constructor has built the tree (it may since have raised in the ingestion)
Built ==
    \/ pc \in {"attrs", "ctor_loop", "loop", "returned", "ready"}
    \/ pc = "raised" /\ err \in {IdentifiersMsg, NoneTypeMsg, TypeMsg}

\* the record the loop is about to process
AtRecord == InLoop /\ pos <= Len(info[1].recs)
Current == info[1].recs[pos]
Identified(item) == Truthy(item["sl"]) /\ Truthy(item["l"]) /\ Truthy(item["w"])
HasSuperLayer(n) == \E i \in 1..Len(_super_layers) : _super_layers[i].number = n
FirstWith(n) ==
    CHOOSE i \in 1..Len(_super_layers) :
        /\ _super_layers[i].number = n
        /\ \A j \in 1..(i - 1) : _super_layers[j].number # n
CellExists(item) ==
    /\ Identified(item)
    /\ HasSuperLayer(item["sl"][1])
    /\ item["l"][1] \in 1..NumLayers
    /\ item["w"][1] \in 1..NumWires
Target(item) == <<_super_layers[FirstWith(item["sl"][1])].rawId, item["l"][1], item["w"][1]>>

\* C1: a constructor whose wheel is outside [-2,2], sector outside [1,14] or
\* station outside [1,4] never gets past the three field assignments: it makes
\* no geometry query, registers no transform and builds no super layer, and
\* when it has stopped it has raised the ValueError of a field validator.
C1_InvalidArgumentsRaiseFirst ==
    (args.wheel \notin -2..2 \/ args.sector \notin 1..14 \/ args.station \notin 1..4) =>
        /\ pc \in {"wheel", "sector", "number", "raised"}
        /\ geoLog = <<>> /\ id = None /\ _direction = None
        /\ transformer = <<>>
        /\ _super_layers = <<>> /\ cells = CellsOf(<<>>)
        /\ (pc = "raised" =>
              err = IF args.wheel \notin -2..2 THEN WheelMsg
                    ELSE IF args.sector \notin 1..14 THEN SectorMsg
                    ELSE NumberMsg)

C1_Witness ==
    /\ pc = "raised" /\ err = NumberMsg
    /\ args.wheel = 0 /\ args.sector = 14 /\ args.station = 5
    /\ _wheel = Some(0) /\ _sector = Some(14) /\ _number = None

\* C2: once the transforms are registered, the sign in them is -1 for wheel < 0,
\* +1 for wheel > 0 and, for wheel 0, -1 exactly for sectors 1,4,5,8,9,12,13; the
\* y axis of Station->CMS is (0,0,sign), the y axis of Station->StationNvPhi is
\* (0,-sign,0) and the x axis of Station->StationNvEta is (-sign,0,0).
C2_FaceOrientationInAllTransforms ==
    transformer # <<>> =>
        LET sign == IF args.wheel < 0 THEN -1
                    ELSE IF args.wheel > 0 THEN 1
                    ELSE IF args.sector \in {1, 4, 5, 8, 9, 12, 13} THEN -1 ELSE 1
        IN  /\ Len(transformer) = 3
            /\ \A i \in 1..3 : transformer[i].source = "Station"
            /\ transformer[1].target = "CMS"
            /\ SameVector(transformer[1].rotation.ey, Vec(0, 0, sign))
            /\ transformer[2].target = "StationNvPhi"
            /\ SameVector(transformer[2].rotation.ey, Vec(0, 0 - sign, 0))
            /\ transformer[3].target = "StationNvEta"
            /\ SameVector(transformer[3].rotation.ex, Vec(0 - sign, 0, 0))

C2_Witness ==
    /\ Len(transformer) = 3
    /\ args.wheel = 0 /\ args.sector = 13
    /\ transformer[1].rotation.ey = Vec(0, 0, -1)

\* C3: every registered rotation matrix is orthonormal, whatever unit normal the
\* geometry holds.
C3_RotationsOrthonormal ==
    \A i \in 1..Len(transformer) : Orthonormal(transformer[i].rotation)

\* the rotations are orthonormal when the normal has no component along the
\* z axis of CMS, as the normal of a barrel chamber nominally has
RotationsOrthonormalForHorizontalNormal ==
    (transformer # <<>> /\ _direction[1].v[3] = 0) => C3_RotationsOrthonormal

\* set_cell_attrs has raised for a record lacking an identifier
IdentifiersRaised == err = IdentifiersMsg /\ pc \in {"returned", "raised"}

\* C4: when set_cell_attrs raises for a record lacking sl, l or w, every cell has
\* the attributes it had when the call was entered.
C4_RaiseBeforeAnyMutation ==
    IdentifiersRaised => cells = cells_before

\* C5: a record identifying a cell the station does not have (super layer, layer
\* or wire absent) makes the pass emit a warning and go on with the next record.
C5_MissingCellWarnsAndContinues ==
    [][(AtRecord /\ Identified(Current) /\ ~CellExists(Current)) =>
          /\ Len(warned') = Len(warned) + 1
          /\ err' = err
          /\ pc' = pc
          /\ pos' = pos + 1]_vars

\* the record in hand names a super layer the station does not have
AbsentSuperLayer == AtRecord /\ Identified(Current) /\ ~HasSuperLayer(Current["sl"][1])

\* C6: a record naming a super layer the station does not have is skipped with a
\* warning: no attribute of any cell changes, nothing is raised, and the loop
\* goes on with the next record of the batch.
C6_AbsentSuperLayerSkipped ==
    [][AbsentSuperLayer =>
          /\ cells' = cells
          /\ warned' = Append(warned, Current["sl"][1])
          /\ err' = err
          /\ pc' = pc
          /\ pos' = pos + 1]_vars

C6_Witness ==
    /\ pc = "returned" /\ err = ""
    /\ Len(warned) = 1
    /\ Len(dt_info[1].recs) = 2
    /\ ~HasSuperLayer(dt_info[1].recs[1]["sl"][1])
    /\ cells # cells_before

\* C7: a record identifying an existing cell sets each of its other keys on that
\* cell, and changes nothing else: not another cell, not another attribute of
\* that cell, and sl, l, w do not become attributes.
C7_AssignsExactlyTheRecord ==
    [][(AtRecord /\ CellExists(Current)) =>
          /\ DOMAIN cells' = DOMAIN cells
          /\ \A c \in DOMAIN cells : \A k \in AllKeys :
                cells'[c][k] = IF c = Target(Current) /\ k \notin {"sl", "l", "w"}
                                  /\ Current[k] # None
                               THEN Current[k]
                               ELSE cells[c][k]
          /\ pc' = pc /\ err' = err]_vars

C7_Witness ==
    /\ pc = "returned" /\ err = ""
    /\ Len(_super_layers) = 2
    /\ \E c \in DOMAIN cells :
          /\ cells[c]["time"] = Some(20) /\ cells[c]["size"] = Some(2)
          /\ cells_before[c]["time"] = Some(10)
          /\ \A o \in DOMAIN cells \ {c} : cells[o] = NoAttrs

\* C8: while set_cell_attrs runs, up to its return or its raise, the object the
\* caller passed keeps every key and value it had.
C8_InputNeverMutated ==
    [][(InLoop /\ dt_info # None) => dt_info' = dt_info]_vars

C8_Witness ==
    /\ pc = "returned" /\ err = IdentifiersMsg
    /\ dt_info # None /\ dt_info[1].shape = "list"
    /\ Len(dt_info[1].recs) = 2
    /\ HasKeys(dt_info[1].recs[1]) = AllKeys
    /\ cells # cells_before

\* C9: super_layer(n) returns None exactly when no super layer bears the number
\* n, and otherwise the first super layer of the list bearing it; it raises
\* nothing.
C9_SuperLayerLookup ==
    found # None =>
        LET n == found[1].n
            result == found[1].result
            matches == { i \in 1..Len(_super_layers) : _super_layers[i].number = n }
        IN  /\ err = "" /\ pc = "returned"
            /\ (result = None <=> matches = {})
            /\ (result # None =>
                  \E i \in matches :
                      /\ result[1] = _super_layers[i]
                      /\ \A j \in matches : i <= j)

C9_Witness ==
    /\ found # None /\ found[1].result = None
    /\ Len(_super_layers) = MaxSL

\* C10: the constructor goes validation, pose queries, the three transforms,
\* super layers, attributes: each query is made once and in that order, no
\* transform is registered before the pose is known, no super layer built before
\* the transforms, no attribute ingested before the tree; and the built list
\* holds one super layer per enumerated element, in the order enumerated, with
\* the station as parent.
QueryOrder == <<"rawId", "LocalPosition", "GlobalPosition", "NormalVector", "Bounds", "SuperLayer">>

C10_ConstructionOrder ==
    /\ geoLog = SubSeq(QueryOrder, 1, Len(geoLog))
    /\ (geoLog # <<>> => _wheel # None /\ _sector # None /\ _number # None)
    /\ (transformer # <<>> =>
          /\ Len(transformer) = 3 /\ Len(geoLog) >= 5
          /\ id # None /\ _direction # None /\ global_center # None)
    /\ (Len(geoLog) = 6 <=> Built)
    /\ (Len(geoLog) = 6 => transformer # <<>>)
    /\ (~Built => _super_layers = <<>> /\ dt_info = None /\ cells = CellsOf(<<>>))
    /\ (Built =>
          /\ Len(_super_layers) = Len(enumerated)
          /\ \A i \in 1..Len(enumerated) :
                /\ _super_layers[i].rawId = enumerated[i].rawId
                /\ _super_layers[i].number = enumerated[i].number
                /\ _super_layers[i].parent = id
                /\ id # None)

C10_Witness ==
    /\ pc = "returned" /\ dt_info # None /\ dt_info = args.dt_info
    /\ Len(_super_layers) = 2
    /\ _super_layers[1].number = 2 /\ _super_layers[2].number = 1
    /\ cells # cells_before

====
